---- MODULE Spec2Model ----
(***************************************************************************)
(* Groundwater monitoring service: the DWLR station / water level /        *)
(* resource tables, the CGWB sync service, the groundwater analysis        *)
(* routines, the seed command and the WSGI migration lock.                 *)
(*                                                                         *)
(* Numbers.  The program computes in floating point.  Here a depth is an   *)
(* integer number of millimetres and every derived quantity is an exact    *)
(* fraction [num, den] with den > 0, in the program's own units (metres,   *)
(* percent, metres per year), so the program's constants (0.15, 0.1,       *)
(* 365.25, 20, 40, 70) appear as they are written in the source.           *)
(* A timestamp is an integer number of ticks, TicksPerDay ticks to a day.  *)
(* An optional value (a nullable column, a missing dictionary key) is the  *)
(* empty tuple for None and a one-element tuple otherwise.                 *)
(***************************************************************************)
EXTENDS Integers, Sequences, FiniteSets, TLC

VARIABLES
    stations,       \* DWLRStation table: station_code -> row, for the codes stored
    water_levels,   \* WaterLevel table: the rows in primary-key order
    resources,      \* GroundwaterResource table: the rows in primary-key order
    now,            \* timezone.now(), in ticks
    last_call,      \* the last operation, with what sync_water_levels returned
    lock_file,      \* whether /tmp/django_migrations_run.lock exists
    worker,         \* WSGI worker -> its position in the module-level block
    call,           \* analysis harness: the arguments drawn for a call
    ret,            \* analysis harness: the function applied and its result
    command         \* sync_real_time_data: the options and position of a run

vars == <<stations, water_levels, resources, now, last_call, lock_file, worker, call, ret,
         command>>

db_vars == <<stations, water_levels, resources, now, last_call>>
wsgi_vars == <<lock_file, worker>>
fn_vars == <<call, ret>>
cmd_vars == <<command>>

-----------------------------------------------------------------------------
(* Bounds of the model *)

TicksPerDay == 2
MaxLen == 3
MaxStations == 2
MaxNow == 1
MaxRows == 2
MaxResources == 1
MaxBatch == 2
SeedCount == 2
NumWorkers == 3
MockStations == 2
MaxWindowDays == 0
MaxApiNow == 2
MaxApiRows == 2
MaxApiResources == 2
MaxIterations == 2
IntervalTicks == 1

-----------------------------------------------------------------------------
(* Optional values and Python truthiness *)

None == <<>>
Some(v) == <<v>>
Val(o) == o[1]

\* `if x:` on an optional number: None and 0 are both false
Truthy(o) == o # None /\ Val(o) # 0

-----------------------------------------------------------------------------
(* Exact fractions standing for the program's floats *)

RECURSIVE GCD(_, _)
GCD(a, b) == IF b = 0 THEN a ELSE GCD(b, a % b)

Abs(a) == IF a < 0 THEN -a ELSE a

\* a / b in lowest terms with a positive denominator (b # 0)
Frac(a, b) ==
    LET g == GCD(Abs(a), Abs(b))
    IN IF b < 0 THEN [num |-> (-a) \div g, den |-> (-b) \div g]
       ELSE [num |-> a \div g, den |-> b \div g]
FromInt(i) == [num |-> i, den |-> 1]
Zero == FromInt(0)
FMul(x, y) == Frac(x.num * y.num, x.den * y.den)
FDiv(x, y) == Frac(x.num * y.den, x.den * y.num)
FSub(x, y) == Frac(x.num * y.den - y.num * x.den, x.den * y.den)
FAdd(x, y) == Frac(x.num * y.den + y.num * x.den, x.den * y.den)
FAbs(x) == [num |-> Abs(x.num), den |-> x.den]
FLt(x, y) == x.num * y.den < y.num * x.den
FLe(x, y) == x.num * y.den <= y.num * x.den
FEq(x, y) == x.num * y.den = y.num * x.den

\* a depth stored in millimetres, as the program's float in metres
Metres(mm) == Frac(mm, 1000)

\* timedelta.days of a difference of two timestamps (floor of whole days)
days(delta) == delta \div TicksPerDay

\* datetime.date() of a timestamp
date(t) == t \div TicksPerDay

-----------------------------------------------------------------------------
(* GroundwaterAnalysisService *)

\* sorted(water_levels, key=lambda x: x.timestamp): stable, ascending
RECURSIVE InsertByTimestamp(_, _)
InsertByTimestamp(s, x) ==
    IF s = <<>> THEN <<x>>
    ELSE IF s[Len(s)].timestamp <= x.timestamp THEN Append(s, x)
    ELSE Append(InsertByTimestamp(SubSeq(s, 1, Len(s) - 1), x), s[Len(s)])

RECURSIVE sorted(_)
sorted(s) ==
    IF s = <<>> THEN <<>>
    ELSE InsertByTimestamp(sorted(SubSeq(s, 1, Len(s) - 1)), s[Len(s)])

\* RiseLoop with the depth change taken the other way round (next - previous)
RECURSIVE RiseLoopReversed(_, _)
RiseLoopReversed(sorted_levels, i) ==
    IF i < 2 THEN <<0, 0>>
    ELSE LET acc == RiseLoopReversed(sorted_levels, i - 1)
             depth_change == sorted_levels[i].depth - sorted_levels[i - 1].depth
         IN IF depth_change > 0
            THEN <<acc[1] + depth_change, acc[2] + 1>>
            ELSE acc

\* the loop of calculate_recharge over i in range(1, len(sorted_levels)),
\* carried as the pair <<total_rise, rise_periods>> (depths in millimetres)
RECURSIVE RiseLoop(_, _)
RiseLoop(sorted_levels, i) ==
    IF i < 2 THEN <<0, 0>>
    ELSE LET acc == RiseLoop(sorted_levels, i - 1)
             depth_change == sorted_levels[i - 1].depth - sorted_levels[i].depth
         IN IF depth_change > 0
            THEN <<acc[1] + depth_change, acc[2] + 1>>
            ELSE acc

specific_yield == Frac(15, 100)

\* the early return of calculate_recharge taken for an empty list only
TooFewReadingsOffByOne(levels) == Len(levels) < 1

\* `if len(water_levels) < 2`: the early return of calculate_recharge
TooFewReadings(levels) == Len(levels) < 2

calculate_recharge(levels) ==
    IF TooFewReadings(levels)
    THEN [estimated_recharge |-> None, recharge_rate |-> None]
    ELSE LET sorted_levels == sorted(levels)
             acc == RiseLoop(sorted_levels, Len(sorted_levels))
             total_rise == Metres(acc[1])
             rise_periods == acc[2]
             estimated_recharge ==
                 IF rise_periods > 0 THEN FMul(total_rise, specific_yield) ELSE Zero
             span_days == days(sorted_levels[Len(sorted_levels)].timestamp
                               - sorted_levels[1].timestamp)
             time_span_years == Frac(span_days * 100, 36525)
             recharge_rate ==
                 IF time_span_years.num > 0
                 THEN FMul(FDiv(estimated_recharge, time_span_years), FromInt(1000))
                 ELSE Zero
         IN [estimated_recharge |-> Some(estimated_recharge),
             recharge_rate |-> Some(recharge_rate)]

\* a water column left as the subtraction gives it
WaterColumnUnclamped(raw_column) == raw_column

\* `if water_column < 0: water_column = 0`
WaterColumn(raw_column) == IF raw_column < 0 THEN 0 ELSE raw_column

calculate_storage(well_depth, current_depth) ==
    IF ~Truthy(well_depth)
    THEN [current_storage |-> None, available_storage |-> None,
          storage_percentage |-> None]
    ELSE LET raw_column == Val(well_depth) - current_depth
             water_column == WaterColumn(raw_column)
             current_storage == FMul(Metres(water_column), specific_yield)
             max_storage == FMul(Metres(Val(well_depth)), specific_yield)
             available_storage == FSub(max_storage, current_storage)
             storage_percentage ==
                 IF max_storage.num > 0
                 THEN FMul(FDiv(current_storage, max_storage), FromInt(100))
                 ELSE Zero
         IN [current_storage |-> Some(current_storage),
             available_storage |-> Some(available_storage),
             storage_percentage |-> Some(storage_percentage)]

\* sums of analyze_trend over the first i sorted readings:
\* <<sum_t, sum_d, sum_td, sum_t2>> with t in whole days from the first reading
RECURSIVE TrendSums(_, _)
TrendSums(sorted_levels, i) ==
    IF i = 0 THEN <<0, 0, 0, 0>>
    ELSE LET acc == TrendSums(sorted_levels, i - 1)
             t == days(sorted_levels[i].timestamp - sorted_levels[1].timestamp)
             d == sorted_levels[i].depth
         IN <<acc[1] + t, acc[2] + d, acc[3] + t * d, acc[4] + t * t>>

\* slope of analyze_trend, in metres per day
TrendSlope(levels) ==
    LET sorted_levels == sorted(levels)
        n == Len(sorted_levels)
        sums == TrendSums(sorted_levels, n)
        denominator == n * sums[4] - sums[1] * sums[1]
    IN IF denominator # 0
       THEN FMul(Frac(n * sums[3] - sums[1] * sums[2], denominator), Metres(1))
       ELSE Zero

\* TrendMagnitude without the abs()
TrendMagnitudeSigned(slope) == FMul(slope, Frac(36525, 100))

TrendMagnitude(slope) == FAbs(FMul(slope, Frac(36525, 100)))

\* the bucket of analyze_trend: 'stable', 'rising' or 'falling'
\* (mutant: the labels of the two signs exchanged)
TrendBucketSwapped(slope, trend_magnitude) ==
    IF FLt(trend_magnitude, Frac(1, 10)) THEN "stable"
    ELSE IF slope.num < 0 THEN "falling"
    ELSE "rising"

TrendBucket(slope, trend_magnitude) ==
    IF FLt(trend_magnitude, Frac(1, 10)) THEN "stable"
    ELSE IF slope.num < 0 THEN "rising"
    ELSE "falling"

analyze_trend(levels) ==
    IF Len(levels) < 2
    THEN [trend |-> "stable", trend_magnitude |-> Zero]
    ELSE LET slope == TrendSlope(levels)
             trend_magnitude == TrendMagnitude(slope)
         IN [trend |-> TrendBucket(slope, trend_magnitude),
             trend_magnitude |-> trend_magnitude]

\* the storage table of determine_alert_status with <= 20 for 'critical'
StorageAlertInclusive(storage_percentage) ==
    IF FLe(storage_percentage, FromInt(20)) THEN "critical"
    ELSE IF FLt(storage_percentage, FromInt(40)) THEN "warning"
    ELSE IF FLt(FromInt(70), storage_percentage) THEN "good"
    ELSE "normal"

\* the storage table of determine_alert_status (storage_percentage not None)
StorageAlert(storage_percentage) ==
    IF FLt(storage_percentage, FromInt(20)) THEN "critical"
    ELSE IF FLt(storage_percentage, FromInt(40)) THEN "warning"
    ELSE IF FLt(FromInt(70), storage_percentage) THEN "good"
    ELSE "normal"

\* the depth fallback of determine_alert_status with >= 80 and >= 60
DepthAlertInclusive(current_depth, well_depth) ==
    IF Truthy(well_depth)
    THEN LET depth_percentage ==
                 FMul(Frac(current_depth, Val(well_depth)), FromInt(100))
         IN IF FLe(FromInt(80), depth_percentage) THEN "critical"
            ELSE IF FLe(FromInt(60), depth_percentage) THEN "warning"
            ELSE "normal"
    ELSE "normal"

\* the depth fallback of determine_alert_status (storage_percentage is None)
DepthAlert(current_depth, well_depth) ==
    IF Truthy(well_depth)
    THEN LET depth_percentage ==
                 FMul(Frac(current_depth, Val(well_depth)), FromInt(100))
         IN IF FLt(FromInt(80), depth_percentage) THEN "critical"
            ELSE IF FLt(FromInt(60), depth_percentage) THEN "warning"
            ELSE "normal"
    ELSE "normal"

determine_alert_status(storage_percentage, trend, current_depth, well_depth) ==
    IF storage_percentage = None
    THEN DepthAlert(current_depth, well_depth)
    ELSE StorageAlert(Val(storage_percentage))

\* GroundwaterResource(...) with the model's defaults for the fields not given
DefaultResource(station_code, t, period_days) ==
    [station |-> station_code,
     calculation_date |-> date(t),
     period_start |-> date(t - period_days * TicksPerDay),
     period_end |-> date(t),
     estimated_recharge |-> None, recharge_rate |-> None,
     current_storage |-> None, available_storage |-> None,
     storage_percentage |-> None,
     trend |-> "", trend_magnitude |-> None,
     alert_status |-> "normal"]

\* WaterLevel.objects.filter(station=station, timestamp__gte=start_date,
\*                           timestamp__lte=end_date).order_by('timestamp')
LevelsInPeriod(table, station_code, start_date, end_date) ==
    LET InPeriod(wl) == /\ wl.station = station_code
                        /\ wl.timestamp >= start_date
                        /\ wl.timestamp <= end_date
    IN sorted(SelectSeq(table, InPeriod))

\* calculate_resource_metrics(station, period_days=365): the unsaved resource
calculate_resource_metrics(station_code, well_depth, table, t) ==
    LET period_days == 365
        end_date == t
        start_date == t - period_days * TicksPerDay
        levels == LevelsInPeriod(table, station_code, start_date, end_date)
    IN IF levels = <<>>
       THEN DefaultResource(station_code, t, period_days)
       ELSE LET recharge_data == calculate_recharge(levels)
                current_depth == levels[Len(levels)].depth
                storage_data == calculate_storage(well_depth, current_depth)
                trend_data == analyze_trend(levels)
                alert_status == determine_alert_status(
                    storage_data.storage_percentage, trend_data.trend,
                    current_depth, well_depth)
            IN [DefaultResource(station_code, t, period_days) EXCEPT
                   !.estimated_recharge = recharge_data.estimated_recharge,
                   !.recharge_rate = recharge_data.recharge_rate,
                   !.current_storage = storage_data.current_storage,
                   !.available_storage = storage_data.available_storage,
                   !.storage_percentage = storage_data.storage_percentage,
                   !.trend = trend_data.trend,
                   !.trend_magnitude = Some(trend_data.trend_magnitude),
                   !.alert_status = alert_status]

-----------------------------------------------------------------------------
(* The tables and the ORM calls the program makes on them *)

StationCodes == 1..MaxStations

\* DWLRStation.objects.update_or_create(station_code=..., defaults=...):
\* the defaults overwrite the row's fields, the other fields are kept
update_or_create_station(table, station_code, defaults) ==
    IF station_code \in DOMAIN table
    THEN [table EXCEPT ![station_code] =
             [@ EXCEPT !.well_depth = defaults.well_depth,
                       !.elevation = defaults.elevation,
                       !.is_active = defaults.is_active]]
    ELSE [c \in DOMAIN table \cup {station_code} |->
             IF c = station_code
             THEN [well_depth |-> defaults.well_depth,
                   elevation |-> defaults.elevation,
                   is_active |-> defaults.is_active,
                   last_data_update |-> None]
             ELSE table[c]]

\* the rows matching the lookup (station, timestamp)
MatchingLevels(table, station_code, timestamp) ==
    {i \in 1..Len(table) : /\ table[i].station = station_code
                           /\ table[i].timestamp = timestamp}

\* update_or_create that never looks the row up
always_create_level(table, station_code, timestamp, defaults) ==
    [table |-> Append(table, [station |-> station_code, timestamp |-> timestamp,
                              depth |-> defaults.depth,
                              water_level_elevation |-> defaults.water_level_elevation,
                              data_source |-> defaults.data_source]),
     created |-> TRUE]

\* WaterLevel.objects.update_or_create(station=, timestamp=, defaults=):
\* <<the table afterwards, created>>
update_or_create_level(table, station_code, timestamp, defaults) ==
    LET found == MatchingLevels(table, station_code, timestamp)
    IN IF found = {}
       THEN [table |-> Append(table, [station |-> station_code, timestamp |-> timestamp,
                                      depth |-> defaults.depth,
                                      water_level_elevation |-> defaults.water_level_elevation,
                                      data_source |-> defaults.data_source]),
             created |-> TRUE]
       ELSE LET i == CHOOSE j \in found : TRUE
            IN [table |-> [table EXCEPT ![i] =
                              [@ EXCEPT !.depth = defaults.depth,
                                        !.water_level_elevation = defaults.water_level_elevation,
                                        !.data_source = defaults.data_source]],
                created |-> FALSE]

\* WaterLevel.objects.get_or_create(station=, timestamp=, defaults=):
\* an existing row is left as it is
get_or_create_level(table, station_code, timestamp, defaults) ==
    IF MatchingLevels(table, station_code, timestamp) = {}
    THEN [table |-> Append(table, [station |-> station_code, timestamp |-> timestamp,
                                   depth |-> defaults.depth,
                                   water_level_elevation |-> None,
                                   data_source |-> defaults.data_source]),
          created |-> TRUE]
    ELSE [table |-> table, created |-> FALSE]

\* deleting stations with the related rows left behind (no cascade)
delete_stations_only(st, wl, res, codes) ==
    [stations |-> [c \in DOMAIN st \ codes |-> st[c]],
     water_levels |-> wl,
     resources |-> res]

\* deleting the stations `codes`: on_delete=CASCADE removes their water levels
\* and resources with them
delete_stations(st, wl, res, codes) ==
    [stations |-> [c \in DOMAIN st \ codes |-> st[c]],
     water_levels |-> SelectSeq(wl, LAMBDA r : r.station \notin codes),
     resources |-> SelectSeq(res, LAMBDA r : r.station \notin codes)]

-----------------------------------------------------------------------------
(* CGWBAPIService *)

\* What the CGWB server does with a request:
\*   "json"             200, content-type application/json, a body that parses
\*   "invalid_json"     200, content-type application/json, response.json() raises
\*   "not_json"         200 with another content-type
\*   "http_error"       raise_for_status() raises
\*   "connection_error" session.get() raises (no route, timeout after 5 s)
ApiOutcomes == {"json", "invalid_json", "not_json", "http_error", "connection_error"}

\* the inner try without its `except Exception: pass`
attempt_real_api_call_uncaught(api) ==
    [returned |-> api.outcome = "json",
     value |-> IF api.outcome = "json" THEN api.body ELSE <<>>,
     raised |-> api.outcome \in {"invalid_json", "http_error", "connection_error"}]

\* the inner try of both fetch functions: the response's JSON is returned when
\* there is one; every exception is swallowed and the function goes on
attempt_real_api_call(api) ==
    [returned |-> api.outcome = "json",
     value |-> IF api.outcome = "json" THEN api.body ELSE <<>>,
     raised |-> FALSE]

\* the mock station list: `for i in range(1, 21)`, here the first MockStations
\* codes, each active with a well depth and an elevation
mock_stations ==
    [i \in 1..MockStations |->
        [station_code |-> Some(i), code |-> None,
         well_depth |-> Some(100000 + 1000 * i), elevation |-> Some(900000),
         is_active |-> TRUE]]

\* fetch_stations(state, district): the list returned, where it came from and
\* whether the call raised
fetch_stations(api) ==
    LET r == attempt_real_api_call(api)
    IN IF r.raised THEN [raised |-> FALSE, source |-> "error", data |-> <<>>]
       ELSE IF r.returned THEN [raised |-> FALSE, source |-> "api", data |-> r.value]
       ELSE [raised |-> FALSE, source |-> "mock", data |-> mock_stations]

\* the mock readings: one a day from start_date while current <= end_date,
\* each with an ISO timestamp and a depth of base + seasonal + noise
mock_water_levels(start_date, end_date, depth) ==
    LET n == IF start_date > end_date THEN 0
             ELSE (end_date - start_date) \div TicksPerDay + 1
    IN [k \in 1..n |->
           [kind |-> "iso", t |-> start_date + (k - 1) * TicksPerDay,
            depth |-> Some(depth), water_level |-> None]]

\* fetch_water_level_data(station_code, start_date, end_date) at time t.  A
\* datetime is [t, aware]; comparing a naive with an aware one is a TypeError,
\* which the outer except turns into an empty list.  timezone.now() is aware.
fetch_water_level_data(start_date, end_date, t, api) ==
    LET end == IF end_date = None THEN [t |-> t, aware |-> TRUE] ELSE Val(end_date)
        start == IF start_date = None
                 THEN [t |-> end.t - 365 * TicksPerDay, aware |-> end.aware]
                 ELSE Val(start_date)
        r == attempt_real_api_call(api)
    IN IF r.raised THEN [raised |-> FALSE, source |-> "error", data |-> <<>>]
       ELSE IF r.returned THEN [raised |-> FALSE, source |-> "api", data |-> r.value]
       ELSE IF start.aware # end.aware
            THEN [raised |-> FALSE, source |-> "error", data |-> <<>>]
            ELSE [raised |-> FALSE, source |-> "mock",
                  data |-> mock_water_levels(start.t, end.t, api.mock_depth)]

\* station_data.get('station_code') alone, without the `or` to 'code'
StationCodeOnly(station_data) == station_data.station_code

\* station_data.get('station_code') or station_data.get('code'): a missing key
\* and the empty string (code 0) are both false
StationCodeOf(station_data) ==
    IF Truthy(station_data.station_code) THEN station_data.station_code
    ELSE station_data.code

\* sync_station_data: the stations table afterwards (a code is present)
sync_station_data(table, station_data) ==
    update_or_create_station(table, Val(StationCodeOf(station_data)),
        [well_depth |-> station_data.well_depth,
         elevation |-> station_data.elevation,
         is_active |-> station_data.is_active])

\* the timestamp of an entry of a batch: a string fromisoformat parses
\* ("iso"), one only strptime '%Y-%m-%d %H:%M:%S' parses ("legacy"), a string
\* neither parses ("bad": ValueError), or no string at all ("missing": now)
TimestampRaises(data) == data.kind = "bad"
TimestampOf(data, t) == IF data.kind \in {"iso", "legacy"} THEN data.t ELSE t

\* float(data.get('depth') or data.get('water_level') or 0)
DepthOf(data) ==
    IF Truthy(data.depth) THEN Val(data.depth)
    ELSE IF Truthy(data.water_level) THEN Val(data.water_level)
    ELSE 0

\* count += 1 for every entry, created or updated
CountAfterAlways(count, created) == count + 1

\* if created: count += 1
CountAfter(count, created) == IF created THEN count + 1 ELSE count

\* one pass of the loop body of sync_water_levels: `prev` is the table, the
\* count, whether an entry has raised and the timestamps written so far
SyncEntry(prev, station_code, elevation, data, t) ==
    IF prev.raised \/ TimestampRaises(data)
    THEN [prev EXCEPT !.raised = TRUE]
    ELSE LET timestamp == TimestampOf(data, t)
             depth == DepthOf(data)
             water_level_elevation ==
                 IF Truthy(elevation) THEN Some(Val(elevation) - depth) ELSE None
             r == update_or_create_level(prev.table, station_code, timestamp,
                      [depth |-> depth,
                       water_level_elevation |-> water_level_elevation,
                       data_source |-> "CGWB_API"])
         IN [table |-> r.table,
             count |-> CountAfter(prev.count, r.created),
             raised |-> FALSE,
             written |-> prev.written \cup {timestamp}]

\* the loop of sync_water_levels over the first i entries
RECURSIVE SyncLoop(_, _, _, _, _, _)
SyncLoop(table, station_code, elevation, water_level_data, t, i) ==
    IF i = 0 THEN [table |-> table, count |-> 0, raised |-> FALSE, written |-> {}]
    ELSE SyncEntry(SyncLoop(table, station_code, elevation, water_level_data, t, i - 1),
                   station_code, elevation, water_level_data[i], t)

\* a block that keeps what it wrote before the exception (no transaction)
non_atomic(before, after, raised) == after

\* with transaction.atomic(): when the block raises, the tables are as before
atomic(before, after, raised) == IF raised THEN before ELSE after

\* sync_water_levels(station, water_level_data): the loop and the update of
\* last_data_update inside transaction.atomic().  `written` is the set of
\* timestamps the loop wrote, whether or not they were rolled back.
sync_water_levels(st, wl, station_code, water_level_data, t) ==
    LET loop == SyncLoop(wl, station_code, st[station_code].elevation,
                         water_level_data, t, Len(water_level_data))
        before == [stations |-> st, water_levels |-> wl]
        after == [stations |-> IF loop.raised THEN st
                               ELSE [st EXCEPT ![station_code].last_data_update = Some(t)],
                  water_levels |-> loop.table]
        db == atomic(before, after, loop.raised)
    IN [stations |-> db.stations, water_levels |-> db.water_levels,
        raised |-> loop.raised,
        count |-> IF loop.raised THEN 0 ELSE loop.count,
        written |-> loop.written]

-----------------------------------------------------------------------------
(* Inputs: the water level batches the API hands to sync_water_levels *)

RECURSIVE SeqsUpTo(_, _)
SeqsUpTo(S, n) ==
    IF n = 0 THEN {<<>>}
    ELSE LET shorter == SeqsUpTo(S, n - 1)
         IN shorter \cup {Append(s, x) : s \in {q \in shorter : Len(q) = n - 1}, x \in S}

\* the entries of a water level batch: two for the same instant in the two
\* accepted formats, one a tick later, one without a timestamp and one whose
\* timestamp does not parse
BatchEntries ==
    {[kind |-> "iso", t |-> 0, depth |-> Some(3000), water_level |-> None],
     [kind |-> "legacy", t |-> 0, depth |-> Some(-500), water_level |-> None],
     [kind |-> "iso", t |-> 1, depth |-> None, water_level |-> Some(1200)],
     [kind |-> "missing", t |-> 0, depth |-> Some(3000), water_level |-> None],
     [kind |-> "bad", t |-> 0, depth |-> Some(3000), water_level |-> None]}

\* batches of 1..MaxBatch entries; two clock reads in one call differ, so at
\* most one entry of a batch is without a timestamp
Batches ==
    {b \in SeqsUpTo(BatchEntries, MaxBatch) :
        /\ b # <<>>
        /\ Cardinality({i \in 1..Len(b) : b[i].kind = "missing"}) <= 1}

-----------------------------------------------------------------------------
(* Harness: the routines applied to bounded inputs *)

\* depths in millimetres; negative = water standing above ground level
HarnessDepths == {1000, 1001, 1003}
\* ticks on four different days when TicksPerDay = 2, two of them on the first day
HarnessTicks == {0, 1, 2, 5, 6}
HarnessReadings == [station : {1}, timestamp : HarnessTicks, depth : HarnessDepths]
HarnessWellDepths == {None, Some(0), Some(4000), Some(-2000)}
HarnessCurrentDepths == {-500, 0, 800, 1600, 2400, 3200, 4000, 5000}
HarnessPercentages ==
    {None} \cup {Some(Frac(k, 2)) : k \in {-2, 0, 39, 40, 41, 79, 80, 81, 139, 140, 141, 200, 220}}

\* what the server answers and the depth the mock generator draws
NoApi == [outcome |-> "connection_error", body |-> <<>>, mock_depth |-> 20000]
HarnessBodies ==
    {<<>>, <<[kind |-> "iso", t |-> 0, depth |-> Some(3000), water_level |-> None]>>}
HarnessApis ==
    {[NoApi EXCEPT !.outcome = o, !.body = b] :
         o \in ApiOutcomes \ {"json"}, b \in {<<>>}}
    \cup {[NoApi EXCEPT !.outcome = "json", !.body = b] : b \in HarnessBodies}
\* the date arguments of fetch_water_level_data: left out, aware or naive
HarnessDates ==
    {None} \cup {Some([t |-> t, aware |-> a]) : t \in {2, 6, 7}, a \in BOOLEAN}

\* databases for the calls of sync_water_levels: station 1 with or without an
\* elevation, without readings or with the readings an earlier sync of one
\* entry left
HarnessStations ==
    {sync_station_data([c \in {} |-> None],
         [station_code |-> Some(1), code |-> None, well_depth |-> Some(31000),
          elevation |-> e, is_active |-> TRUE]) : e \in {None, Some(50000)}}
NoDb == [stations |-> [c \in {} |-> None], water_levels |-> <<>>]
HarnessDbs ==
    {[stations |-> st, water_levels |-> <<>>] : st \in HarnessStations}
    \cup {[stations |-> r.stations, water_levels |-> r.water_levels] :
             r \in {sync_water_levels(st, <<>>, 1, <<e>>, 0) :
                        st \in HarnessStations,
                        e \in {x \in BatchEntries : x.kind = "iso"}}}

NoCall == [levels |-> <<>>, well_depth |-> None, current_depth |-> 0,
           storage_percentage |-> None, t |-> 6,
           api |-> NoApi, start_date |-> None, end_date |-> None,
           db |-> NoDb, batch |-> <<>>]

HarnessCalls ==
    {[NoCall EXCEPT !.levels = l] : l \in SeqsUpTo(HarnessReadings, MaxLen)}
    \cup {[NoCall EXCEPT !.well_depth = w, !.current_depth = c] :
             w \in HarnessWellDepths, c \in HarnessCurrentDepths}
    \cup {[NoCall EXCEPT !.storage_percentage = p, !.well_depth = w, !.current_depth = c] :
             p \in HarnessPercentages, w \in {None, Some(0), Some(4000), Some(-2000)},
             c \in {-1700, 800, 2400, 2500, 3200, 3300}}
    \cup {[NoCall EXCEPT !.levels = l, !.well_depth = w, !.t = t] :
             l \in SeqsUpTo(HarnessReadings, 2), w \in {None, Some(4000)}, t \in HarnessTicks}
    \cup {[NoCall EXCEPT !.api = a, !.start_date = s, !.end_date = e] :
             a \in HarnessApis, s \in HarnessDates, e \in HarnessDates}
    \cup {[NoCall EXCEPT !.db = d, !.batch = b] : d \in HarnessDbs, b \in Batches}

NoReturn == [fn |-> "none", out |-> <<>>]

DbIdle ==
    /\ stations = <<>>
    /\ water_levels = <<>>
    /\ resources = <<>>
    /\ now = 0
    /\ last_call = <<>>

WsgiIdle ==
    /\ lock_file = FALSE
    /\ worker = <<>>

CommandIdle == command = <<>>

InitAnalysis ==
    /\ DbIdle
    /\ WsgiIdle
    /\ call \in HarnessCalls
    /\ ret = NoReturn
    /\ CommandIdle

CallRecharge ==
    /\ ret = NoReturn
    /\ ret' = [fn |-> "calculate_recharge", out |-> calculate_recharge(call.levels)]
    /\ UNCHANGED <<call, db_vars, wsgi_vars, cmd_vars>>

CallStorage ==
    /\ ret = NoReturn
    /\ ret' = [fn |-> "calculate_storage",
               out |-> calculate_storage(call.well_depth, call.current_depth)]
    /\ UNCHANGED <<call, db_vars, wsgi_vars, cmd_vars>>

CallTrend ==
    /\ ret = NoReturn
    /\ ret' = [fn |-> "analyze_trend", out |-> analyze_trend(call.levels)]
    /\ UNCHANGED <<call, db_vars, wsgi_vars, cmd_vars>>

CallAlert ==
    /\ ret = NoReturn
    /\ ret' = [fn |-> "determine_alert_status",
               out |-> [alert_status |->
                   determine_alert_status(call.storage_percentage, "stable",
                                          call.current_depth, call.well_depth)]]
    /\ UNCHANGED <<call, db_vars, wsgi_vars, cmd_vars>>

CallMetrics ==
    /\ ret = NoReturn
    /\ ret' = [fn |-> "calculate_resource_metrics",
               out |-> calculate_resource_metrics(1, call.well_depth, call.levels, call.t)]
    /\ UNCHANGED <<call, db_vars, wsgi_vars, cmd_vars>>

CallFetchStations ==
    /\ ret = NoReturn
    /\ ret' = [fn |-> "fetch_stations", out |-> fetch_stations(call.api)]
    /\ UNCHANGED <<call, db_vars, wsgi_vars, cmd_vars>>

CallFetchWaterLevelData ==
    /\ ret = NoReturn
    /\ ret' = [fn |-> "fetch_water_level_data",
               out |-> fetch_water_level_data(call.start_date, call.end_date,
                                              call.t, call.api)]
    /\ UNCHANGED <<call, db_vars, wsgi_vars, cmd_vars>>

\* sync_water_levels(station, water_level_data) called on station 1, and
\* called again a tick later with the same list
CallSyncWaterLevelsTwice ==
    /\ ret = NoReturn
    /\ call.db # NoDb
    /\ \E first \in {sync_water_levels(call.db.stations, call.db.water_levels, 1,
                                       call.batch, call.t)} :
         ret' = [fn |-> "sync_water_levels twice",
                 out |-> [first |-> first,
                          second |-> sync_water_levels(first.stations, first.water_levels,
                                                       1, call.batch, call.t + 1)]]
    /\ UNCHANGED <<call, db_vars, wsgi_vars, cmd_vars>>

NextAnalysis ==
    \/ CallRecharge
    \/ CallStorage
    \/ CallTrend
    \/ CallAlert
    \/ CallMetrics
    \/ CallFetchStations
    \/ CallFetchWaterLevelData
    \/ CallSyncWaterLevelsTwice

SpecAnalysis == InitAnalysis /\ [][NextAnalysis]_vars

-----------------------------------------------------------------------------
(* seed_sample_data *)

\* SAMPLE_STATIONS: the codes 1..SampleCount, here the first station code,
\* generated once with a well depth in [30, 120] m and an elevation in
\* [50, 800] m
SampleCodes == {1}
SampleCount == Cardinality(SampleCodes)
SampleStation(station_code) ==
    [well_depth |-> Some(30000 + 1000 * station_code),
     elevation |-> Some(50000),
     is_active |-> TRUE]

\* base_depth + i * trend + gauss(0, 0.5), before clamping and rounding (mm)
SeedRawDepths == {1504, 13004}

\* round(depth, 2), depth in millimetres
Round2(mm) == ((mm + 5) \div 10) * 10

Max(a, b) == IF a > b THEN a ELSE b
Min(a, b) == IF a < b THEN a ELSE b

\* dt.replace(hour=10, minute=0, second=0, microsecond=0)
AtTen(dt) == date(dt) * TicksPerDay + (10 * TicksPerDay) \div 24

\* the reading of step i of one station: 30 days apart, the last one today;
\* `raw` is the depth drawn for the step
SeedLevel(table, station_code, well_depth, raw, t, i) ==
    LET dt == t - 30 * (SeedCount - 1 - i) * TicksPerDay
        limit == (IF Truthy(well_depth) THEN Val(well_depth) ELSE 80000) - 5000
        depth == Max(2000, Min(raw, limit))
    IN get_or_create_level(table, station_code, AtTen(dt),
           [depth |-> Round2(depth), data_source |-> "SEED"]).table

\* for i in range(SeedCount): the first n steps
RECURSIVE SeedLevels(_, _, _, _, _, _)
SeedLevels(table, station_code, well_depth, raw, t, n) ==
    IF n = 0 THEN table
    ELSE SeedLevel(SeedLevels(table, station_code, well_depth, raw, t, n - 1),
                   station_code, well_depth, raw[n], t, n - 1)

\* the body of the loop of handle() for sample station k
SeedStation(prev, k, raw, t) ==
    LET st1 == update_or_create_station(prev.stations, k, SampleStation(k))
        wl1 == SeedLevels(prev.water_levels, k, st1[k].well_depth, raw, t, SeedCount)
        st2 == [st1 EXCEPT ![k].last_data_update = Some(t)]
    IN [stations |-> st2,
        water_levels |-> wl1,
        resources |-> Append(prev.resources,
                             calculate_resource_metrics(k, st2[k].well_depth, wl1, t)),
        created |-> IF k \in DOMAIN prev.stations THEN prev.created
                    ELSE prev.created + 1]

\* the loop of handle() over the first k sample stations
RECURSIVE SeedLoop(_, _, _, _)
SeedLoop(db, raw, t, k) ==
    IF k = 0 THEN [stations |-> db.stations, water_levels |-> db.water_levels,
                   resources |-> db.resources, created |-> 0]
    ELSE SeedStation(SeedLoop(db, raw, t, k - 1), k, raw[k], t)

\* --clear: WaterLevel.objects.all().delete(), then
\* GroundwaterResource.objects.all().delete(), then DWLRStation.objects.all().delete()
clear_existing_data(st) == delete_stations(st, <<>>, <<>>, DOMAIN st)

\* handle(): with --clear the three tables are emptied first
seed_sample_data(st, wl, res, clear, raw, t) ==
    SeedLoop(IF clear THEN clear_existing_data(st)
             ELSE [stations |-> st, water_levels |-> wl, resources |-> res],
             raw, t, SampleCount)

-----------------------------------------------------------------------------
(* The service: the operations on the database *)

\* the station dictionaries the API returns: a full one for every code, a
\* bare inactive one for the last code, the same under the key 'code' with
\* 'station_code' missing or empty, and two without any code (the code 0
\* stands for the empty string)
StationInputs ==
    {[station_code |-> Some(c), code |-> None, well_depth |-> SampleStation(c).well_depth,
      elevation |-> Some(50000), is_active |-> TRUE] : c \in StationCodes}
    \cup {[station_code |-> Some(MaxStations), code |-> None, well_depth |-> None,
           elevation |-> None, is_active |-> FALSE]}
    \cup {[station_code |-> k[1], code |-> k[2], well_depth |-> None, elevation |-> None,
           is_active |-> FALSE] :
             k \in {<<None, None>>, <<None, Some(MaxStations)>>,
                    <<Some(0), Some(0)>>, <<Some(0), Some(MaxStations)>>}}

\* last_call: the operation, whether it raised, what sync_water_levels
\* returned, how many timestamps it wrote, and the operation's argument
NoOp == [op |-> "none", raised |-> FALSE, count |-> 0, written |-> 0, arg |-> <<>>]

InitDb ==
    /\ stations = [c \in {} |-> None]
    /\ water_levels = <<>>
    /\ resources = <<>>
    /\ now = 0
    /\ last_call = NoOp
    /\ WsgiIdle
    /\ call = NoCall
    /\ ret = NoReturn
    /\ CommandIdle

\* time passes
Tick ==
    /\ now < MaxNow
    /\ now' = now + 1
    /\ UNCHANGED <<stations, water_levels, resources, last_call, wsgi_vars, fn_vars, cmd_vars>>

\* CGWBAPIService.sync_station_data(station_data)
SyncStationData ==
    \E station_data \in StationInputs :
        /\ IF ~Truthy(StationCodeOf(station_data))
           THEN /\ last_call' = [NoOp EXCEPT !.op = "sync_station_data", !.raised = TRUE,
                                             !.arg = station_data]
                /\ UNCHANGED stations
           ELSE /\ stations' = sync_station_data(stations, station_data)
                /\ last_call' = [NoOp EXCEPT !.op = "sync_station_data",
                                             !.arg = station_data]
        /\ UNCHANGED <<water_levels, resources, now, wsgi_vars, fn_vars, cmd_vars>>

\* CGWBAPIService.sync_water_levels(station, water_level_data)
SyncWaterLevels ==
    \E station_code \in DOMAIN stations, water_level_data \in Batches :
        \E r \in {sync_water_levels(stations, water_levels, station_code,
                                   water_level_data, now)} :
           /\ Len(r.water_levels) <= MaxRows
           /\ stations' = r.stations
           /\ water_levels' = r.water_levels
           /\ last_call' = [op |-> "sync_water_levels",
                            raised |-> r.raised, count |-> r.count,
                            written |-> Cardinality(r.written),
                            arg |-> <<>>]
           /\ UNCHANGED <<resources, now, wsgi_vars, fn_vars, cmd_vars>>

\* resource = calculate_resource_metrics(station); resource.save()
ComputeMetrics ==
    \E station_code \in DOMAIN stations :
        /\ Len(resources) < MaxResources
        /\ resources' = Append(resources,
               calculate_resource_metrics(station_code, stations[station_code].well_depth,
                                          water_levels, now))
        /\ last_call' = NoOp
        /\ UNCHANGED <<stations, water_levels, now, wsgi_vars, fn_vars, cmd_vars>>

\* python manage.py seed_sample_data [--clear]
SeedSampleData ==
    \E clear \in BOOLEAN, raw \in [SampleCodes -> [1..SeedCount -> SeedRawDepths]] :
        \E r \in {seed_sample_data(stations, water_levels, resources, clear, raw, now)} :
           /\ Len(r.water_levels) <= MaxRows
           /\ Len(r.resources) <= MaxResources
           /\ stations' = r.stations
           /\ water_levels' = r.water_levels
           /\ resources' = r.resources
           /\ last_call' = [NoOp EXCEPT !.op = IF clear THEN "seed_sample_data --clear"
                                               ELSE "seed_sample_data"]
           /\ UNCHANGED <<now, wsgi_vars, fn_vars, cmd_vars>>

\* a station deleted through the admin site
AdminDeleteStation ==
    \E station_code \in DOMAIN stations :
        \E r \in {delete_stations(stations, water_levels, resources, {station_code})} :
           /\ stations' = r.stations
           /\ water_levels' = r.water_levels
           /\ resources' = r.resources
           /\ last_call' = [NoOp EXCEPT !.op = "delete_station"]
           /\ UNCHANGED <<now, wsgi_vars, fn_vars, cmd_vars>>

Next ==
    \/ Tick
    \/ SyncStationData
    \/ SyncWaterLevels
    \/ ComputeMetrics
    \/ SeedSampleData
    \/ AdminDeleteStation

Spec == InitDb /\ [][Next]_vars

-----------------------------------------------------------------------------
(* The REST endpoints and the sync commands *)

\* DWLRStation.objects.all(): every station taken for an active one
AllStationsAsActive(st) == DOMAIN st

\* DWLRStation.objects.filter(is_active=True)
ActiveStations(st) == {c \in DOMAIN st : st[c].is_active}

\* the stations of a queryset in the order the loop visits them
RECURSIVE InOrder(_)
InOrder(codes) ==
    IF codes = {} THEN <<>>
    ELSE LET least == CHOOSE c \in codes : \A o \in codes : c <= o
         IN <<least>> \o InOrder(codes \ {least})

\* end_date - timedelta(days=period_days), the look-back cut to MaxWindowDays
WindowStart(t, period_days) == t - Min(period_days, MaxWindowDays) * TicksPerDay

\* the body every sync of one station shares (views.py sync_data and
\* sync_all_stations, sync_station of both commands): fetch, and when there is
\* data, sync_water_levels, calculate_resource_metrics and resource.save().
\* `reply` is what the environment does: the API's answer and whether the
\* metrics step raises (a database error on save).
sync_station(db, station_code, period_days, t, reply) ==
    LET fetched == fetch_water_level_data(
                       Some([t |-> WindowStart(t, period_days), aware |-> TRUE]),
                       Some([t |-> t, aware |-> TRUE]), t, reply.api)
        water_level_data == fetched.data
    IN IF water_level_data = <<>>
       THEN [db |-> db, outcome |-> "no_data", count |-> 0]
       ELSE LET r == sync_water_levels(db.stations, db.water_levels, station_code,
                                       water_level_data, t)
            IN IF r.raised
               THEN [db |-> db, outcome |-> "sync_raised", count |-> 0]
               ELSE IF reply.save_fails
               THEN [db |-> [db EXCEPT !.stations = r.stations,
                                       !.water_levels = r.water_levels],
                     outcome |-> "metrics_raised", count |-> r.count]
               ELSE [db |-> [stations |-> r.stations,
                             water_levels |-> r.water_levels,
                             resources |-> Append(db.resources,
                                 calculate_resource_metrics(station_code,
                                     r.stations[station_code].well_depth,
                                     r.water_levels, t))],
                     outcome |-> "synced", count |-> r.count]

\* one pass of the loop of the sync_all_stations endpoint: success_count is
\* incremented when sync_water_levels has returned, failed_count when there
\* is no data and in the except clause
SyncAllStep(prev, station_code, t, reply) ==
    LET r == sync_station(prev.db, station_code, 30, t, reply)
    IN [db |-> r.db,
        total_records |-> prev.total_records + r.count,
        success_count |-> prev.success_count
                          + (IF r.outcome \in {"synced", "metrics_raised"} THEN 1 ELSE 0),
        failed_count |-> prev.failed_count
                         + (IF r.outcome \in {"no_data", "sync_raised", "metrics_raised"}
                            THEN 1 ELSE 0),
        attempts |-> Append(prev.attempts, station_code)]

\* `for station in stations:` over the first n stations of the queryset
RECURSIVE SyncAllLoop(_, _, _, _, _)
SyncAllLoop(db, codes, t, replies, n) ==
    IF n = 0
    THEN [db |-> db, total_records |-> 0, success_count |-> 0, failed_count |-> 0,
          attempts |-> <<>>]
    ELSE SyncAllStep(SyncAllLoop(db, codes, t, replies, n - 1), codes[n], t,
                     replies[codes[n]])

\* POST /api/stations/sync_all_stations/
sync_all_stations(db, t, replies) ==
    LET stations_ == InOrder(ActiveStations(db.stations))
    IN SyncAllLoop(db, stations_, t, replies, Len(stations_))

\* the loop of a sync command over the first n stations: each station goes
\* through sync_station, which catches what the sync raises
RECURSIVE CommandLoop(_, _, _, _, _, _)
CommandLoop(db, codes, period_days, t, replies, n) ==
    IF n = 0 THEN [db |-> db, attempts |-> <<>>]
    ELSE LET prev == CommandLoop(db, codes, period_days, t, replies, n - 1)
         IN [db |-> sync_station(prev.db, codes[n], period_days, t, replies[codes[n]]).db,
             attempts |-> Append(prev.attempts, codes[n])]

\* python manage.py sync_dwlr_data --all; sync_all_stations of
\* sync_real_time_data (period_days 7 with --recent, else 365)
sync_active_stations(db, period_days, t, replies) ==
    LET stations_ == InOrder(ActiveStations(db.stations))
    IN CommandLoop(db, stations_, period_days, t, replies, Len(stations_))

\* latest_resource.calculation_date <= today
IsStaleInclusive(calculation_date, today) == calculation_date <= today

\* latest_resource.calculation_date < timezone.now().date()
IsStale(calculation_date, today) == calculation_date < today

\* station.resources.first() under Meta.ordering = ['-calculation_date']: the
\* indices of the station's records with the greatest calculation_date (the
\* database is free to return any of them first)
FirstResources(res, station_code) ==
    LET mine == {i \in 1..Len(res) : res[i].station = station_code}
    IN {i \in mine : \A j \in mine : res[j].calculation_date <= res[i].calculation_date}

\* the stations GET /api/stations/?alert_status=X lists (no parameter: all)
list_stations(st, res, alert_status) ==
    IF alert_status = None THEN DOMAIN st
    ELSE LET station_codes == {res[i].station :
                 i \in {j \in 1..Len(res) : res[j].alert_status = Val(alert_status)}}
         IN {c \in DOMAIN st : c \in station_codes}

\* what the API answers for a station and whether the metrics step raises
ApiReplies ==
    {[api |-> [outcome |-> "json", body |-> b, mock_depth |-> 20000],
      save_fails |-> FALSE] :
        b \in {<<>>,
               <<[kind |-> "iso", t |-> 0, depth |-> Some(3000), water_level |-> None]>>,
               <<[kind |-> "iso", t |-> 0, depth |-> None, water_level |-> Some(1200)]>>,
               <<[kind |-> "bad", t |-> 0, depth |-> Some(3000), water_level |-> None]>>}}
    \cup {[api |-> [outcome |-> "connection_error", body |-> <<>>, mock_depth |-> 20000],
           save_fails |-> FALSE],
          [api |-> [outcome |-> "json",
                    body |-> <<[kind |-> "iso", t |-> 0, depth |-> Some(3000),
                                water_level |-> None]>>,
                    mock_depth |-> 20000],
           save_fails |-> TRUE]}

\* station 1 active with a well depth of 4 m, station 2 without a well depth,
\* active or not: both as sync_station_data stores them
ApiStationTables ==
    {sync_station_data(
         sync_station_data([c \in {} |-> None],
             [station_code |-> Some(1), code |-> None, well_depth |-> Some(4000),
              elevation |-> Some(50000), is_active |-> TRUE]),
         [station_code |-> Some(2), code |-> None, well_depth |-> None,
          elevation |-> None, is_active |-> a]) : a \in BOOLEAN}

InitApi ==
    /\ stations \in ApiStationTables
    /\ water_levels = <<>>
    /\ resources = <<>>
    /\ now = 0
    /\ last_call = NoOp
    /\ WsgiIdle
    /\ call = NoCall
    /\ ret = NoReturn
    /\ CommandIdle

Db == [stations |-> stations, water_levels |-> water_levels, resources |-> resources]

\* the tables after a handler, within the bounds of the model
Store(db) ==
    /\ Len(db.water_levels) <= MaxApiRows
    /\ Len(db.resources) <= MaxApiResources
    /\ stations' = db.stations
    /\ water_levels' = db.water_levels
    /\ resources' = db.resources

ApiTick ==
    /\ now < MaxApiNow
    /\ now' = now + 1
    /\ UNCHANGED <<stations, water_levels, resources, last_call, wsgi_vars, fn_vars, cmd_vars>>

\* POST /api/stations/{station_code}/sync_data/
SyncData ==
    \E station_code \in DOMAIN stations, reply \in ApiReplies :
        \E r \in {sync_station(Db, station_code, 365, now, reply)} :
           /\ Store(r.db)
           /\ last_call' = [NoOp EXCEPT !.op = "sync_data",
                  !.arg = [station |-> station_code,
                           status |-> CASE r.outcome = "synced" -> "success"
                                        [] r.outcome = "no_data" -> "warning"
                                        [] OTHER -> "error"]]
           /\ UNCHANGED <<now, wsgi_vars, fn_vars, cmd_vars>>

\* POST /api/stations/sync_all_stations/
SyncAllStations ==
    \E replies \in [ActiveStations(stations) -> ApiReplies] :
        \E r \in {sync_all_stations(Db, now, replies)} :
           /\ Store(r.db)
           /\ last_call' = [NoOp EXCEPT !.op = "sync_all_stations",
                  !.arg = [total_records_synced |-> r.total_records,
                           successful_stations |-> r.success_count,
                           failed_stations |-> r.failed_count,
                           attempts |-> r.attempts]]
           /\ UNCHANGED <<now, wsgi_vars, fn_vars, cmd_vars>>

\* python manage.py sync_dwlr_data --all
SyncDwlrDataAll ==
    \E replies \in [ActiveStations(stations) -> ApiReplies] :
        \E r \in {sync_active_stations(Db, 365, now, replies)} :
           /\ Store(r.db)
           /\ last_call' = [NoOp EXCEPT !.op = "sync_dwlr_data --all",
                                        !.arg = [attempts |-> r.attempts]]
           /\ UNCHANGED <<now, wsgi_vars, fn_vars, cmd_vars>>

\* python manage.py sync_real_time_data [--recent], without --continuous
SyncRealTimeDataOnce ==
    \E recent_only \in BOOLEAN, replies \in [ActiveStations(stations) -> ApiReplies] :
        \E r \in {sync_active_stations(Db, IF recent_only THEN 7 ELSE 365, now, replies)} :
           /\ Store(r.db)
           /\ last_call' = [NoOp EXCEPT !.op = "sync_real_time_data",
                                        !.arg = [attempts |-> r.attempts]]
           /\ UNCHANGED <<now, wsgi_vars, fn_vars, cmd_vars>>

\* GET /api/stations/{station_code}/resource_metrics/
ResourceMetrics ==
    \E station_code \in DOMAIN stations :
        LET first == FirstResources(resources, station_code)
            today == date(now)
        IN /\ IF first = {} \/ \A i \in first : IsStale(resources[i].calculation_date, today)
              THEN \E resource \in {calculate_resource_metrics(station_code,
                                        stations[station_code].well_depth,
                                        water_levels, now)} :
                      /\ Len(resources) < MaxApiResources
                      /\ resources' = Append(resources, resource)
                      /\ last_call' = [NoOp EXCEPT !.op = "resource_metrics",
                             !.arg = [station |-> station_code, date |-> today,
                                      resource |-> resource]]
              ELSE \E i \in first :
                      /\ resources' = resources
                      /\ last_call' = [NoOp EXCEPT !.op = "resource_metrics",
                             !.arg = [station |-> station_code, date |-> today,
                                      resource |-> resources[i]]]
           /\ UNCHANGED <<stations, water_levels, now, wsgi_vars, fn_vars, cmd_vars>>

\* GET /api/stations/?alert_status=X
ListStations ==
    \E alert_status \in {None} \cup {Some(x) : x \in {"critical", "warning", "normal", "good"}} :
        /\ last_call' = [NoOp EXCEPT !.op = "list_stations",
               !.arg = [alert_status |-> alert_status,
                        stations |-> list_stations(stations, resources, alert_status)]]
        /\ UNCHANGED <<stations, water_levels, resources, now, wsgi_vars, fn_vars, cmd_vars>>

\* the read endpoints, with single-station syncs between them and time passing
NextApi ==
    \/ ApiTick
    \/ SyncData
    \/ ResourceMetrics
    \/ ListStations

SpecApi == InitApi /\ [][NextApi]_vars

\* the syncs of all active stations, and single-station syncs between them
NextSyncAll ==
    \/ SyncData
    \/ SyncAllStations
    \/ SyncDwlrDataAll
    \/ SyncRealTimeDataOnce

SpecSyncAll == InitApi /\ [][NextSyncAll]_vars

-----------------------------------------------------------------------------
(* sync_real_time_data: a run of the command, one station at a time *)

\* stations 1 (well depth 4 m) and 2 (no well depth), each active or not
CommandStationTables ==
    {sync_station_data(
         sync_station_data([c \in {} |-> None],
             [station_code |-> Some(1), code |-> None, well_depth |-> Some(4000),
              elevation |-> Some(50000), is_active |-> a1]),
         [station_code |-> Some(2), code |-> None, well_depth |-> None,
          elevation |-> None, is_active |-> a2]) : a1, a2 \in BOOLEAN}

\* the outcomes of a station's sync in which the try block raised
RaisedOutcomes == {"sync_raised", "metrics_raised"}

\* a sync_station without its except clause: what the try block raises leaves it
sync_station_uncaught(outcome) == outcome \in RaisedOutcomes

\* whether an exception leaves sync_station: `except Exception` catches
\* whatever the fetch, the sync and the metrics step raise
sync_station_raises(outcome) == FALSE

\* `for i, station in enumerate(stations, 1)` has run out of stations
pass_over(pending) == pending = <<>>

\* python manage.py sync_real_time_data [--continuous] [--recent]: handle()
\* has read the options.  `iteration` counts the passes started (the
\* iteration of sync_continuous), `stations` is the queryset of the pass.
InitCommand ==
    /\ stations \in CommandStationTables
    /\ water_levels = <<>>
    /\ resources = <<>>
    /\ now = 0
    /\ last_call = NoOp
    /\ WsgiIdle
    /\ call = NoCall
    /\ ret = NoReturn
    /\ command \in {[continuous |-> c, recent_only |-> r, pc |-> "handle",
                     iteration |-> 0, stations |-> <<>>, pending |-> <<>>,
                     attempted |-> <<>>, errors |-> 0, wake_at |-> 0,
                     stopped |-> "running"] : c, r \in BOOLEAN}

\* handle() calling sync_all_stations, or `while True: iteration += 1` calling
\* it: the active stations are queried (none: a warning, and the pass is over)
StartPass ==
    /\ command.pc \in {"handle", "loop"}
    /\ command.iteration < MaxIterations
    /\ command' = [command EXCEPT !.pc = "pass",
                                  !.iteration = @ + 1,
                                  !.stations = InOrder(ActiveStations(stations)),
                                  !.pending = InOrder(ActiveStations(stations)),
                                  !.attempted = <<>>]
    /\ UNCHANGED <<db_vars, wsgi_vars, fn_vars>>

\* self.sync_station(api_service, station, recent_only) for the next station
SyncStation ==
    /\ command.pc = "pass"
    /\ ~pass_over(command.pending)
    /\ \E reply \in ApiReplies :
        \E r \in {sync_station(Db, Head(command.pending),
                               IF command.recent_only THEN 7 ELSE 365, now, reply)} :
           /\ stations' = r.db.stations
           /\ water_levels' = r.db.water_levels
           /\ resources' = r.db.resources
           /\ last_call' = [NoOp EXCEPT !.op = "sync_station",
                  !.arg = [station |-> Head(command.pending), outcome |-> r.outcome]]
           /\ \E errors \in {command.errors
                             + (IF r.outcome \in RaisedOutcomes THEN 1 ELSE 0)} :
                command' = IF sync_station_raises(r.outcome)
                           THEN [command EXCEPT !.pc = "done", !.stopped = "raised",
                                                !.errors = errors]
                           ELSE [command EXCEPT !.pending = Tail(@),
                                     !.attempted = Append(@, Head(command.pending)),
                                     !.errors = errors]
    /\ UNCHANGED <<now, wsgi_vars, fn_vars>>

\* the loop over the stations is over: sync_all_stations returns, to handle()
\* (the command ends) or to sync_continuous, which calls time.sleep(interval)
EndPass ==
    /\ command.pc = "pass"
    /\ pass_over(command.pending)
    /\ command' = IF command.continuous
                  THEN [command EXCEPT !.pc = "sleep", !.wake_at = now + IntervalTicks]
                  ELSE [command EXCEPT !.pc = "done", !.stopped = "returned"]
    /\ UNCHANGED <<db_vars, wsgi_vars, fn_vars>>

\* time passes while the command is in time.sleep(interval)
Sleep ==
    /\ command.pc = "sleep"
    /\ now < command.wake_at
    /\ now' = now + 1
    /\ UNCHANGED <<stations, water_levels, resources, last_call, wsgi_vars, fn_vars,
                   cmd_vars>>

\* time.sleep(interval) returns: back to `while True`
Wake ==
    /\ command.pc = "sleep"
    /\ now >= command.wake_at
    /\ command' = [command EXCEPT !.pc = "loop"]
    /\ UNCHANGED <<db_vars, wsgi_vars, fn_vars>>

\* Ctrl-C between two steps: KeyboardInterrupt is no Exception, so
\* sync_station lets it through; sync_continuous catches it and prints
\* 'Sync stopped by user', without --continuous it leaves handle()
KeyboardInterrupt ==
    /\ command.pc \in {"pass", "sleep", "loop"}
    /\ command' = [command EXCEPT !.pc = "done",
                      !.stopped = IF command.continuous THEN "stopped_by_user"
                                  ELSE "interrupted"]
    /\ UNCHANGED <<db_vars, wsgi_vars, fn_vars>>

\* the steps the command takes by itself
CommandRuns ==
    \/ StartPass
    \/ SyncStation
    \/ EndPass
    \/ Sleep
    \/ Wake

NextCommand ==
    \/ CommandRuns
    \/ KeyboardInterrupt

\* a process that can take a step takes it
SpecCommand == InitCommand /\ [][NextCommand]_vars /\ WF_vars(CommandRuns)

-----------------------------------------------------------------------------
(* wsgi.py: the module-level migration block, run by every worker at start *)

Workers == 1..NumWorkers

\* open(lock_file, 'w'): creates or truncates, never FileExistsError
open_truncating(exists) == [raised |-> FALSE, exists |-> TRUE]

\* open(lock_file, 'x'): exclusive creation, one atomic step of the file
\* system; FileExistsError when the file is there
open_exclusive(exists) ==
    IF exists THEN [raised |-> TRUE, exists |-> TRUE]
    ELSE [raised |-> FALSE, exists |-> TRUE]

\* the workers that have called call_command('migrate')
Invoked == {w \in Workers : worker[w] \in {"migrating", "migrated", "migrate_failed"}}

\* the lock file may be left over from an earlier start of the service
InitWsgi ==
    /\ DbIdle
    /\ call = NoCall
    /\ ret = NoReturn
    /\ lock_file \in BOOLEAN
    /\ worker = [w \in Workers |-> "start"]
    /\ CommandIdle

\* with open(lock_file, 'x') as f: f.write('locked')
OpenLock(w) ==
    /\ worker[w] = "start"
    /\ LET r == open_exclusive(lock_file)
       IN /\ lock_file' = r.exists
          /\ worker' = [worker EXCEPT ![w] = IF r.raised THEN "skipped" ELSE "responsible"]
    /\ UNCHANGED <<db_vars, fn_vars, cmd_vars>>

\* open() failing for another reason (OSError): the outer except prints a warning
OpenFails(w) ==
    /\ worker[w] = "start"
    /\ worker' = [worker EXCEPT ![w] = "warned"]
    /\ UNCHANGED <<lock_file, db_vars, fn_vars, cmd_vars>>

\* call_command('migrate') entered
StartMigrate(w) ==
    /\ worker[w] = "responsible"
    /\ worker' = [worker EXCEPT ![w] = "migrating"]
    /\ UNCHANGED <<lock_file, db_vars, fn_vars, cmd_vars>>

\* call_command('migrate') returns, or raises into the outer except
EndMigrate(w) ==
    /\ worker[w] = "migrating"
    /\ \E outcome \in {"migrated", "migrate_failed"} :
           worker' = [worker EXCEPT ![w] = outcome]
    /\ UNCHANGED <<lock_file, db_vars, fn_vars, cmd_vars>>

NextWsgi ==
    \E w \in Workers :
        \/ OpenLock(w)
        \/ OpenFails(w)
        \/ StartMigrate(w)
        \/ EndMigrate(w)

SpecWsgi == InitWsgi /\ [][NextWsgi]_vars

-----------------------------------------------------------------------------
(* Properties of the analysis routines, checked under SpecAnalysis *)

RECURSIVE SumFn(_, _)
SumFn(f, S) ==
    IF S = {} THEN 0
    ELSE LET x == CHOOSE y \in S : TRUE
         IN f[x] + SumFn(f, S \ {x})

\* the positions of `levels` in timestamp order, equal timestamps in input order
TimestampOrder(levels) ==
    CHOOSE p \in [1..Len(levels) -> 1..Len(levels)] :
        \A i, j \in 1..Len(levels) :
            i < j => \/ levels[p[i]].timestamp < levels[p[j]].timestamp
                     \/ /\ levels[p[i]].timestamp = levels[p[j]].timestamp
                        /\ p[i] < p[j]

\* the sum of the positive decreases in depth between consecutive readings (mm)
SumOfDecreases(levels) ==
    LET p == TimestampOrder(levels)
        dec == [i \in 1..(Len(levels) - 1) |->
                   LET c == levels[p[i]].depth - levels[p[i + 1]].depth
                   IN IF c > 0 THEN c ELSE 0]
    IN SumFn(dec, DOMAIN dec)

InTimestampOrder(levels) ==
    \A i \in 1..(Len(levels) - 1) : levels[i].timestamp <= levels[i + 1].timestamp

\* C1: whenever calculate_storage returns a non-null storage_percentage for a
\* station whose well_depth is set, the value lies between 0 and 100.
C1_StoragePercentageWithin0And100 ==
    (/\ ret.fn = "calculate_storage"
     /\ call.well_depth # None
     /\ ret.out.storage_percentage # None)
    => /\ FLe(Zero, Val(ret.out.storage_percentage))
       /\ FLe(Val(ret.out.storage_percentage), FromInt(100))

C4_RechargeIsYieldTimesRises ==
    (ret.fn = "calculate_recharge" /\ Len(call.levels) >= 2)
    => ret.out.estimated_recharge
           = Some(FMul(Frac(15, 100), Metres(SumOfDecreases(call.levels))))

C4_Witness ==
    /\ ret.fn = "calculate_recharge"
    /\ Len(call.levels) = 3
    /\ ~InTimestampOrder(call.levels)
    /\ SumOfDecreases(call.levels) = 2
    /\ ret.out.estimated_recharge = Some(Frac(3, 10000))

\* the label the table of C5 gives a percentage: the labels whose row holds
TableLabels(p) ==
    {l \in {"critical", "warning", "normal", "good"} :
        \/ l = "critical" /\ FLt(p, FromInt(20))
        \/ l = "warning" /\ FLe(FromInt(20), p) /\ FLt(p, FromInt(40))
        \/ l = "good" /\ FLt(FromInt(70), p)
        \/ l = "normal" /\ FLe(FromInt(40), p) /\ FLe(p, FromInt(70))}

\* C5: for a non-null storage percentage p, determine_alert_status returns
\* 'critical' if p < 20, 'warning' if 20 <= p < 40, 'good' if p > 70 and
\* 'normal' if 40 <= p <= 70, and exactly one row applies.
C5_AlertStatusFollowsTable ==
    (ret.fn = "determine_alert_status" /\ call.storage_percentage # None)
    => TableLabels(Val(call.storage_percentage)) = {ret.out.alert_status}

C5_Witness ==
    /\ ret.fn = "determine_alert_status"
    /\ call.storage_percentage = Some(FromInt(20))
    /\ ret.out.alert_status = "warning"

\* the least-squares slope of depth (mm) against whole-day offset from the
\* earliest reading, from the deviations about the means (scaled by n):
\* sum (n t - sum t)(n d - sum d) / sum (n t - sum t)^2, and 0 when every
\* reading has the same day offset
LeastSquaresSlope(levels) ==
    LET n == Len(levels)
        I == 1..n
        earliest == CHOOSE t \in {levels[i].timestamp : i \in I} :
                        \A i \in I : t <= levels[i].timestamp
        t == [i \in I |-> days(levels[i].timestamp - earliest)]
        d == [i \in I |-> levels[i].depth]
        tdev == [i \in I |-> n * t[i] - SumFn(t, I)]
        ddev == [i \in I |-> n * d[i] - SumFn(d, I)]
        sxy == SumFn([i \in I |-> tdev[i] * ddev[i]], I)
        sxx == SumFn([i \in I |-> tdev[i] * tdev[i]], I)
    IN IF \A i \in I : t[i] = t[1] THEN Zero ELSE Frac(sxy, sxx * 1000)

\* C6: for two or more readings analyze_trend returns 'stable' when
\* |slope * 365.25| < 0.1, otherwise 'rising' for a negative and 'falling' for
\* a positive least-squares slope; readings all on one day offset are 'stable'.
C6_TrendBucketsOfLeastSquaresSlope ==
    (ret.fn = "analyze_trend" /\ Len(call.levels) >= 2)
    => LET slope == LeastSquaresSlope(call.levels)
           yearly == FAbs(FMul(slope, Frac(36525, 100)))
       IN /\ FLt(yearly, Frac(1, 10)) => ret.out.trend = "stable"
          /\ (~FLt(yearly, Frac(1, 10)) /\ slope.num < 0) => ret.out.trend = "rising"
          /\ (~FLt(yearly, Frac(1, 10)) /\ slope.num > 0) => ret.out.trend = "falling"
          /\ ret.out.trend \in {"stable", "rising", "falling"}
          /\ (\A i \in 1..Len(call.levels) :
                 days(call.levels[i].timestamp - call.levels[1].timestamp) = 0)
             => ret.out.trend = "stable"

\* a slope that is not zero and still 'stable', on unsorted input
C6_Witness ==
    /\ ret.fn = "analyze_trend"
    /\ Len(call.levels) = 3
    /\ ~InTimestampOrder(call.levels)
    /\ LeastSquaresSlope(call.levels).num < 0
    /\ ret.out.trend = "stable"

\* C7: with fewer than two readings calculate_recharge returns null for both
\* fields and analyze_trend returns 'stable' with magnitude 0.
C7_FewerThanTwoReadings ==
    Len(call.levels) < 2
    => /\ ret.fn = "calculate_recharge"
          => ret.out = [estimated_recharge |-> None, recharge_rate |-> None]
       /\ ret.fn = "analyze_trend"
          => ret.out = [trend |-> "stable", trend_magnitude |-> Zero]

C7_Witness ==
    /\ Len(call.levels) = 1
    /\ ret.fn = "calculate_recharge"
    /\ ret.out.estimated_recharge = None

\* C8: the trend_magnitude analyze_trend returns is >= 0, and the
\* trend_magnitude of a resource made by calculate_resource_metrics is null or
\* >= 0.
C8_TrendMagnitudeNonNegative ==
    /\ ret.fn = "analyze_trend" => FLe(Zero, ret.out.trend_magnitude)
    /\ ret.fn = "calculate_resource_metrics"
       => \/ ret.out.trend_magnitude = None
          \/ FLe(Zero, Val(ret.out.trend_magnitude))

C8_Witness ==
    /\ ret.fn = "calculate_resource_metrics"
    /\ ret.out.trend = "rising"
    /\ FLt(Zero, Val(ret.out.trend_magnitude))

\* C20: with a null storage_percentage determine_alert_status goes by depth:
\* with a well depth it returns 'critical' if current_depth / well_depth * 100
\* is above 80, 'warning' if it is above 60 and 'normal' otherwise; without a
\* well depth it returns 'normal'; it never returns 'good'.
C20_DepthFallback ==
    (ret.fn = "determine_alert_status" /\ call.storage_percentage = None)
    => LET c == call.current_depth
           w == IF call.well_depth = None THEN 0 ELSE Val(call.well_depth)
           \* c / w * 100 > k, for w # 0
           Above(k) == IF w > 0 THEN c * 100 > k * w ELSE c * 100 < k * w
       IN /\ ret.out.alert_status # "good"
          /\ call.well_depth = None => ret.out.alert_status = "normal"
          /\ w # 0 => ret.out.alert_status =
                          IF Above(80) THEN "critical"
                          ELSE IF Above(60) THEN "warning"
                          ELSE "normal"

\* exactly 80 percent of the well depth is 'warning', not yet 'critical'
C20_Witness ==
    /\ ret.fn = "determine_alert_status"
    /\ call.storage_percentage = None
    /\ call.well_depth = Some(4000)
    /\ call.current_depth = 3200
    /\ ret.out.alert_status = "warning"

\* the real API call failed or did not return JSON
ApiFailed(api) == api.outcome # "json"

\* the dates fetch_water_level_data works with cannot be compared
DatesIncomparable(start_date, end_date) ==
    LET end_aware == IF end_date = None THEN TRUE ELSE Val(end_date).aware
        start_aware == IF start_date = None THEN end_aware ELSE Val(start_date).aware
    IN start_aware # end_aware

\* C14: fetch_stations and fetch_water_level_data never raise: when the real
\* API call fails or returns no JSON the result is the generated mock data,
\* and when another error comes up (here: a naive date compared with an aware
\* one while the mock readings are generated) the result is the empty list.
C14_FetchNeverRaises ==
    /\ ret.fn = "fetch_stations"
       => /\ ~ret.out.raised
          /\ ApiFailed(call.api)
             => /\ ret.out.source = "mock"
                /\ Len(ret.out.data) = MockStations
                /\ \A i \in 1..MockStations : ret.out.data[i].station_code = Some(i)
    /\ ret.fn = "fetch_water_level_data"
       => /\ ~ret.out.raised
          /\ (ApiFailed(call.api) /\ ~DatesIncomparable(call.start_date, call.end_date))
             => /\ ret.out.source = "mock"
                /\ \A i \in 1..Len(ret.out.data) :
                       /\ ret.out.data[i].kind = "iso"
                       /\ ret.out.data[i].depth = Some(call.api.mock_depth)
                /\ (call.start_date # None /\ call.end_date # None)
                   => Len(ret.out.data) =
                        IF Val(call.start_date).t > Val(call.end_date).t THEN 0
                        ELSE days(Val(call.end_date).t - Val(call.start_date).t) + 1
          /\ (ApiFailed(call.api) /\ DatesIncomparable(call.start_date, call.end_date))
             => ret.out.data = <<>>

\* the server is not reachable and the mock readings of three days come back
C14_Witness ==
    /\ ret.fn = "fetch_water_level_data"
    /\ call.api.outcome = "connection_error"
    /\ call.start_date = Some([t |-> 2, aware |-> TRUE])
    /\ call.end_date = Some([t |-> 6, aware |-> TRUE])
    /\ ret.out.source = "mock"
    /\ Len(ret.out.data) = 3

\* every entry of the batch carries a timestamp string that parses
ExplicitTimestamps(batch) ==
    \A i \in 1..Len(batch) : batch[i].kind \in {"iso", "legacy"}

\* the readings of a table: station, timestamp, depth and elevation
Readings(table) ==
    {[station |-> table[i].station, timestamp |-> table[i].timestamp,
      depth |-> table[i].depth,
      water_level_elevation |-> table[i].water_level_elevation] : i \in 1..Len(table)}

-----------------------------------------------------------------------------
(* Properties of the database operations, checked under Spec *)

\* C2: after any sequence of water level syncs and seed runs, repeated syncs
\* of overlapping batches included, the WaterLevel table holds at most one
\* reading for each (station, timestamp) pair.
C2_OneReadingPerStationAndTimestamp ==
    \A i, j \in 1..Len(water_levels) :
        (/\ water_levels[i].station = water_levels[j].station
         /\ water_levels[i].timestamp = water_levels[j].timestamp) => i = j

\* a sync whose batch only hit readings already stored, one of them next to
\* a seeded reading of the same station
C2_Witness ==
    /\ last_call.op = "sync_water_levels"
    /\ ~last_call.raised
    /\ last_call.count = 0
    /\ last_call.written = 1
    /\ \E i, j \in 1..Len(water_levels) :
           /\ water_levels[i].station = water_levels[j].station
           /\ water_levels[i].data_source = "SEED"
           /\ water_levels[j].data_source = "CGWB_API"
           /\ water_levels[j].timestamp = 0

\* C9: every stored water level reading and every stored resource record
\* refers to a station that exists, whatever operations have run.
C9_ReadingsAndResourcesHaveStations ==
    /\ \A i \in 1..Len(water_levels) : water_levels[i].station \in DOMAIN stations
    /\ \A i \in 1..Len(resources) : resources[i].station \in DOMAIN stations

\* a station has just been deleted while another keeps readings and a resource
C9_Witness ==
    /\ last_call.op = "delete_station"
    /\ water_levels # <<>>
    /\ resources # <<>>
    /\ Cardinality(DOMAIN stations) = 1

C18_SyncIsAllOrNothing ==
    [][(last_call'.op = "sync_water_levels" /\ last_call'.raised)
       => /\ water_levels' = water_levels
          /\ stations' = stations]_vars

\* a batch whose first entry was written and whose second entry raised
C18_Witness ==
    /\ last_call.op = "sync_water_levels"
    /\ last_call.raised
    /\ last_call.written = 1
    /\ water_levels = <<>>

\* C10: sync_water_levels returns the number of water level records the call
\* created or updated.
C10_CountIsCreatedOrUpdated ==
    (last_call.op = "sync_water_levels" /\ ~last_call.raised)
    => last_call.count = last_call.written

-----------------------------------------------------------------------------
(* Properties of the endpoints, checked under SpecApi *)

\* the records of a station
ResourcesOf(res, station_code) == {i \in 1..Len(res) : res[i].station = station_code}

\* the records of a station with its greatest calculation_date
LatestResources(res, station_code) ==
    {i \in ResourcesOf(res, station_code) :
        \A j \in ResourcesOf(res, station_code) :
            res[j].calculation_date <= res[i].calculation_date}

\* C11: GET /api/stations/?alert_status=X lists exactly the stations whose
\* latest resource record has alert status X.  (Where several records share
\* the greatest calculation_date any of them may count as the latest.)
C11_ListedByLatestAlertStatus ==
    (last_call.op = "list_stations" /\ last_call.arg.alert_status # None)
    => \A c \in DOMAIN stations :
          LET latest == {resources[i].alert_status : i \in LatestResources(resources, c)}
              X == Val(last_call.arg.alert_status)
          IN /\ c \in last_call.arg.stations => X \in latest
             /\ latest = {X} => c \in last_call.arg.stations

\* C12: resource_metrics stores and returns exactly one new record, dated
\* today, when the station has no record or none dated today; when the latest
\* record is dated today it returns that record and stores nothing; a call
\* that follows a call for the same station on the same day stores nothing.
C12_RecomputedOncePerDay ==
    [][(last_call'.op = "resource_metrics" /\ now' = now)
       => LET c == last_call'.arg.station
              today == date(now')
              mine == ResourcesOf(resources, c)
              n == Len(resources)
          IN /\ IF \A i \in mine : resources[i].calculation_date < today
                THEN /\ Len(resources') = n + 1
                     /\ SubSeq(resources', 1, n) = resources
                     /\ resources'[n + 1].station = c
                     /\ resources'[n + 1].calculation_date = today
                     /\ last_call'.arg.resource = resources'[n + 1]
                ELSE /\ resources' = resources
                     /\ \E i \in mine :
                           /\ resources[i].calculation_date = today
                           /\ last_call'.arg.resource = resources[i]
             /\ (/\ last_call.op = "resource_metrics"
                 /\ last_call.arg.station = c
                 /\ last_call.arg.date = today)
                => resources' = resources]_vars

\* a station with a record of yesterday was asked for again: a second record,
\* dated today, has been stored and returned
C12_Witness ==
    /\ last_call.op = "resource_metrics"
    /\ Len(resources) = 2
    /\ resources[1].station = resources[2].station
    /\ resources[1].calculation_date = 0
    /\ resources[2].calculation_date = 1
    /\ last_call.arg.date = 1
    /\ last_call.arg.resource = resources[2]

-----------------------------------------------------------------------------
(* Properties of the syncs of all stations, checked under SpecSyncAll *)

\* C13: the sync_all_stations endpoint attempts every active station exactly
\* once, whatever the syncs of the others raise, and in its response
\* successful_stations + failed_stations is the number of active stations.
C13_EveryActiveStationCountedOnce ==
    last_call.op = "sync_all_stations"
    => /\ Len(last_call.arg.attempts) = Cardinality(ActiveStations(stations))
       /\ {last_call.arg.attempts[i] : i \in 1..Len(last_call.arg.attempts)}
              = ActiveStations(stations)
       /\ last_call.arg.successful_stations + last_call.arg.failed_stations
              = Cardinality(ActiveStations(stations))

\* C16: the sync_all_stations endpoint, sync_dwlr_data --all and
\* sync_real_time_data leave every inactive station as it is: its row (with
\* last_data_update), its readings and its resource records.
C16_InactiveStationsUntouched ==
    [][last_call'.op \in {"sync_all_stations", "sync_dwlr_data --all", "sync_real_time_data"}
       => \A c \in DOMAIN stations :
             ~stations[c].is_active
             => /\ c \in DOMAIN stations'
                /\ stations'[c] = stations[c]
                /\ SelectSeq(water_levels', LAMBDA r : r.station = c)
                      = SelectSeq(water_levels, LAMBDA r : r.station = c)
                /\ SelectSeq(resources', LAMBDA r : r.station = c)
                      = SelectSeq(resources, LAMBDA r : r.station = c)
                /\ \A i \in 1..Len(last_call'.arg.attempts) :
                      last_call'.arg.attempts[i] # c]_vars

\* the endpoint has synced the active station while the inactive one keeps
\* the reading and the record an earlier sync_data gave it
C16_Witness ==
    /\ last_call.op = "sync_all_stations"
    /\ last_call.arg.successful_stations = 1
    /\ \E c \in DOMAIN stations :
          /\ ~stations[c].is_active
          /\ stations[c].last_data_update # None
          /\ \E i \in 1..Len(water_levels) : water_levels[i].station = c
          /\ \E i \in 1..Len(resources) : resources[i].station = c
    /\ \E c \in DOMAIN stations :
          /\ stations[c].is_active
          /\ \E i \in 1..Len(resources) : resources[i].station = c

-----------------------------------------------------------------------------
(* Properties of the sync_real_time_data command, checked under SpecCommand *)

\* without --continuous no second pass is started, and a run that returns
\* has attempted every active station once, in the order of the queryset
OnePassWithoutContinuous ==
    /\ ~command.continuous => command.iteration <= 1
    /\ command.stopped = "returned" =>
          /\ ~command.continuous
          /\ command.iteration = 1
          /\ command.attempted = InOrder(ActiveStations(stations))

\* a step that starts a pass after the first one is taken with --continuous,
\* when the pass before it has attempted every active station and the
\* interval has elapsed since that pass ended
NextPassAfterPassAndSleep ==
    (command.iteration >= 1 /\ command'.iteration = command.iteration + 1) =>
        /\ command.continuous
        /\ command.attempted = InOrder(ActiveStations(stations))
        /\ command.attempted = command.stations
        /\ now >= command.wake_at

\* a station's sync that raises leaves the command in its pass, with the
\* station counted as attempted
FailureKeepsThePass ==
    command'.errors > command.errors =>
        /\ command'.pc = "pass"
        /\ command'.stopped = "running"
        /\ command'.attempted = Append(command.attempted, Head(command.pending))

\* with --continuous the command is over only when it was interrupted
EndsOnlyOnInterrupt ==
    (command.continuous /\ command.pc = "done") => command.stopped = "stopped_by_user"

-----------------------------------------------------------------------------
(* Properties of the WSGI start, checked under SpecWsgi *)

\* C3: however many workers start and however they interleave, at most one
\* creates the lock file and so at most one ever invokes migrate; every other
\* worker that gets past open() skips the migration.
C3_AtMostOneWorkerMigrates ==
    /\ Cardinality({w \in Workers : worker[w] \in {"responsible"} \cup
                        {"migrating", "migrated", "migrate_failed"}}) <= 1
    /\ Cardinality(Invoked) <= 1
    /\ \A w \in Workers :
           worker[w] \in {"responsible", "migrating", "migrated", "migrate_failed"}
           => /\ lock_file
              /\ \A v \in Workers \ {w} : worker[v] \in {"start", "skipped", "warned"}

\* one worker has migrated while the others, started concurrently, skipped
C3_Witness ==
    /\ Cardinality({w \in Workers : worker[w] = "migrated"}) = 1
    /\ Cardinality({w \in Workers : worker[w] = "skipped"}) = NumWorkers - 1

====
